---- MODULE Spec2Model ----
(***************************************************************************)
(* State-machine model of the eng4todaycore chat backend:                  *)
(*   - the conversation-window truncation loop of handle_chat_message,     *)
(*   - the audio fingerprint generate_audio_filename,                      *)
(*   - the write-through audio cache get_or_create_audio_url,              *)
(*   - the message turn handle_chat_message against the session store.     *)
(* Strings are modelled as sequences of one-character strings so that      *)
(* strip(), slicing and concatenation are computed as the code does.       *)
(***************************************************************************)
EXTENDS Integers, Sequences, FiniteSets, TLC

\* ------------------------------------------------------------------------
\* Program constants
\* ------------------------------------------------------------------------

MAX_CONVERSATION_TOKENS == 20000

\* request.message[:99]
SESSION_NAME_LENGTH == 99

\* ------------------------------------------------------------------------
\* Bounds of the model
\* ------------------------------------------------------------------------

\* longest window handed to the truncation loop in FitSpec
MaxWin == 5

\* longest text handed to generate_audio_filename in KeySpec
MaxTextLen == 2

\* number of direct get_or_create_audio_url calls made in AudioSpec
MaxCalls == 2

\* number of message requests made in ChatSpec and SeqSpec
MaxReplyLen == 5
MaxTurns == 3

\* ------------------------------------------------------------------------
\* State
\* ------------------------------------------------------------------------

VARIABLES
    fitPc,        \* position of the stand-alone truncation loop
    fitWin,       \* `history` inside the loop
    fitTotal,     \* last total_tokens.total_tokens measured (0: none yet)
    fitCounter,   \* the token counter: window length |-> measured tokens
    fitIn,        \* the window the loop was first given
    fitOut1,      \* result of the first pass (<<>> until it has finished)
    fitCalls      \* count_tokens_async calls made in the current pass

fitVars == <<fitPc, fitWin, fitTotal, fitCounter, fitIn, fitOut1, fitCalls>>

VARIABLES
    keyIn,        \* two (text, voice_id) argument pairs for the fingerprint
    keyOut        \* the filenames computed for them (<<>> before the calls)

keyVars == <<keyIn, keyOut>>

VARIABLES
    parseIn,      \* the raw reply handed to the reply parser
    parseOut      \* what the parser made of it (<<>> before it has run)

parseVars == <<parseIn, parseOut>>

VARIABLES
    aws_configured, \* all([polly_client, s3_client, S3_BUCKET_NAME])
    s3,           \* the bucket: a set of objects [key, body], one per key
    aPc,          \* per caller: position inside get_or_create_audio_url
    aArgs,        \* per caller: text, voice_id, text_type of the call
    aFile,        \* per caller: `filename`
    aRet,         \* per caller: the value returned (None or a URL)
    aStats,       \* per caller: what the calls to S3 and Polly did
    aLog          \* finished direct calls, oldest first

audioVars == <<aws_configured, s3, aPc, aArgs, aFile, aRet, aStats, aLog>>

VARIABLES
    chat_sessions, \* committed rows of table chat_sessions, by session_id
    personas,     \* committed rows of table personas, by prompt_id
    txWrite,      \* per request: the row version its open transaction wrote
    req,          \* per request slot: position and locals of the handler
    turns         \* message requests begun so far

dbVars == <<chat_sessions, personas, txWrite>>

chatVars == <<dbVars, req, turns>>

vars == <<fitVars, keyVars, parseVars, audioVars, chatVars>>

\* ------------------------------------------------------------------------
\* Messages and windows
\* ------------------------------------------------------------------------

\* ChatMessage(role=..., content=...)
ChatMessage(role, content) == [role |-> role, content |-> content]

\* role the i-th message of a stored conversation has when the first is `first`
RoleAt(first, i) ==
    IF i % 2 = 1 THEN first ELSE (IF first = "user" THEN "model" ELSE "user")

\* roles alternate and the first message is a user message
AlternatesFromUser(h) ==
    \A i \in 1..Len(h) : h[i].role = RoleAt("user", i)

\* token counts the provider may report: at the budget and just above it
TokenValues == {MAX_CONVERSATION_TOKENS, MAX_CONVERSATION_TOKENS + 1}

\* Python's None (no string of the model is equal to it)
None == <<"None">>

\* ------------------------------------------------------------------------
\* Strings
\* ------------------------------------------------------------------------

Whitespace == {" "}

RECURSIVE lstrip(_)
lstrip(str) ==
    IF str # <<>> /\ Head(str) \in Whitespace THEN lstrip(Tail(str)) ELSE str

RECURSIVE rstrip(_)
rstrip(str) ==
    IF str # <<>> /\ str[Len(str)] \in Whitespace
    THEN rstrip(SubSeq(str, 1, Len(str) - 1))
    ELSE str

\* str.strip()
strip(str) == rstrip(lstrip(str))

\* all strings over `chars` of length 0..n
RECURSIVE StringsUpTo(_, _)
StringsUpTo(chars, n) ==
    IF n = 0 THEN {<<>>}
    ELSE LET shorter == StringsUpTo(chars, n - 1)
         IN shorter \cup { Append(w, ch) : w \in shorter, ch \in chars }

\* ------------------------------------------------------------------------
\* The truncation loop (api/chat.py 182-187, main.py 294-303)
\* ------------------------------------------------------------------------

\* slip: history[1:], a single message dropped per step
DropOldestPair_One(history) == SubSeq(history, 2, Len(history))

\* slip: history[:-2], the two newest messages are removed
DropOldestPair_Newest(history) == SubSeq(history, 1, Len(history) - 2)

\* history[2:]
DropOldestPair(history) == SubSeq(history, 3, Len(history))

\* slip: the loop never truncates (breaks when over budget and above the floor)
TruncationStep_NoTruncate(history, total_tokens) ==
    [history |-> history, brk |-> TRUE]

\* slip: `if` for `while`, a single truncation pass that is never re-measured
TruncationStep_SinglePass(history, total_tokens) ==
    IF total_tokens <= MAX_CONVERSATION_TOKENS
    THEN [history |-> history, brk |-> TRUE]
    ELSE IF Len(history) > 2
         THEN [history |-> SubSeq(history, 3, Len(history)), brk |-> TRUE]
         ELSE [history |-> history, brk |-> TRUE]

\* slip: at the floor and over budget the loop measures again
TruncationStep_NoFloorBreak(history, total_tokens) ==
    IF total_tokens <= MAX_CONVERSATION_TOKENS
    THEN [history |-> history, brk |-> TRUE]
    ELSE IF Len(history) > 2
         THEN [history |-> DropOldestPair(history), brk |-> FALSE]
         ELSE [history |-> history, brk |-> FALSE]

\* One iteration of `while True` after count_tokens_async returned
\* total_tokens: the window that results and whether the loop breaks.
TruncationStep(history, total_tokens) ==
    IF total_tokens <= MAX_CONVERSATION_TOKENS
    THEN [history |-> history, brk |-> TRUE]
    ELSE IF Len(history) > 2
         THEN [history |-> DropOldestPair(history), brk |-> FALSE]
         ELSE [history |-> history, brk |-> TRUE]

\* ------------------------------------------------------------------------
\* The audio fingerprint (services/aws.py 25-29)
\* ------------------------------------------------------------------------

\* hashlib.sha256(data).hexdigest(), taken to be collision-free: the digest
\* is identified with the data it was computed from
sha256_hexdigest(data) == <<"sha256", data>>

\* generate_audio_filename: f"{sha256}.mp3" of clean_text + voice_id
generate_audio_filename(text, voice_id) ==
    LET clean_text == strip(text)
    IN <<sha256_hexdigest(clean_text \o voice_id), ".mp3">>

\* ------------------------------------------------------------------------
\* The audio cache (services/aws.py 31-103)
\* ------------------------------------------------------------------------

\* the two request slots of the model; a slot is also the caller of the
\* get_or_create_audio_url invocation made on its behalf
Callers == {"r1", "r2"}

\* the pre-signed URL S3 issues for a key
PresignedUrl(file_name) == <<"https", file_name>>

NoStats ==
    [head |-> "none", synth |-> "none", put |-> "none", presign |-> 0,
     said |-> <<>>]

\* the arguments of polly_client.synthesize_speech that depend on the call
\* (lines 74-80): Text is clean_text as it is, TextType is text_type
SynthesizeRequest(clean_text, voice_id, text_type) ==
    [Text |-> clean_text, TextType |-> text_type, VoiceId |-> voice_id]

\* keys present in the bucket
S3Keys == { o.key : o \in s3 }

\* slip: a put adds an object and leaves the one already under the key
PutObject_KeepOld(bucket, key, body) ==
    bucket \cup {[key |-> key, body |-> body]}

\* s3_client.put_object(Key=key, Body=body): replaces the object under key
PutObject(bucket, key, body) ==
    { o \in bucket : o.key # key } \cup {[key |-> key, body |-> body]}

\* what head_object can answer for a key: "ok" only for a stored key and
\* ClientError 404 only for a missing one; another ClientError (403, ...) or
\* an exception that is not a ClientError (connection failure) at any time
HeadOutcomes(key) ==
    (IF key \in S3Keys THEN {"ok"} ELSE {"404"}) \cup {"client_error", "error"}

\* slip: every ClientError of head_object is taken as a cache miss
AfterHead_AnyErrorMisses(outcome) ==
    CASE outcome = "ok" -> "presign"
      [] outcome = "404" -> "synth"
      [] outcome = "client_error" -> "synth"
      [] OTHER -> "raised"

\* slip: the cache is never consulted, a hit is synthesized again
AfterHead_NoCache(outcome) ==
    CASE outcome = "ok" -> "synth"
      [] outcome = "404" -> "synth"
      [] outcome = "client_error" -> "returned"
      [] OTHER -> "raised"

\* where get_or_create_audio_url goes after head_object (lines 62-70, 95-99)
AfterHead(outcome) ==
    CASE outcome = "ok" -> "presign"
      [] outcome = "404" -> "synth"
      [] outcome = "client_error" -> "returned"
      [] OTHER -> "raised"

\* slip: the text type is made part of the fingerprint
AudioCall_KindInKey(c, text, voice_id, text_type) ==
    /\ aPc[c] = "idle"
    /\ LET clean_text == strip(text)
           proceed == aws_configured /\ clean_text # <<>>
       IN /\ aPc' = [aPc EXCEPT ![c] = IF proceed THEN "head" ELSE "returned"]
          /\ aFile' = [aFile EXCEPT ![c] =
                         IF proceed
                         THEN generate_audio_filename(clean_text,
                                                      voice_id \o <<text_type>>)
                         ELSE None]
    /\ aArgs' = [aArgs EXCEPT ![c] =
                   [text |-> text, voice_id |-> voice_id, text_type |-> text_type]]
    /\ aRet' = [aRet EXCEPT ![c] = None]
    /\ aStats' = [aStats EXCEPT ![c] = NoStats]
    /\ UNCHANGED <<aws_configured, s3, aLog>>

\* slip: the empty-text guard of lines 56-58 is missing
AudioCall_NoEmptyGuard(c, text, voice_id, text_type) ==
    /\ aPc[c] = "idle"
    /\ LET clean_text == strip(text)
           proceed == aws_configured
       IN /\ aPc' = [aPc EXCEPT ![c] = IF proceed THEN "head" ELSE "returned"]
          /\ aFile' = [aFile EXCEPT ![c] =
                         IF proceed
                         THEN generate_audio_filename(clean_text, voice_id)
                         ELSE None]
    /\ aArgs' = [aArgs EXCEPT ![c] =
                   [text |-> text, voice_id |-> voice_id, text_type |-> text_type]]
    /\ aRet' = [aRet EXCEPT ![c] = None]
    /\ aStats' = [aStats EXCEPT ![c] = NoStats]
    /\ UNCHANGED <<aws_configured, s3, aLog>>

\* lines 52-60: the configuration and empty-text guards, then the filename
AudioCall(c, text, voice_id, text_type) ==
    /\ aPc[c] = "idle"
    /\ LET clean_text == strip(text)
           proceed == aws_configured /\ clean_text # <<>>
       IN /\ aPc' = [aPc EXCEPT ![c] = IF proceed THEN "head" ELSE "returned"]
          /\ aFile' = [aFile EXCEPT ![c] =
                         IF proceed
                         THEN generate_audio_filename(clean_text, voice_id)
                         ELSE None]
    /\ aArgs' = [aArgs EXCEPT ![c] =
                   [text |-> text, voice_id |-> voice_id, text_type |-> text_type]]
    /\ aRet' = [aRet EXCEPT ![c] = None]
    /\ aStats' = [aStats EXCEPT ![c] = NoStats]
    /\ UNCHANGED <<aws_configured, s3, aLog>>

\* line 64: s3_client.head_object, and the except branches of lines 68-99
AudioHead(c) ==
    /\ aPc[c] = "head"
    /\ \E outcome \in HeadOutcomes(aFile[c]) :
          /\ aStats' = [aStats EXCEPT ![c].head = outcome]
          /\ aPc' = [aPc EXCEPT ![c] = AfterHead(outcome)]
    /\ UNCHANGED <<aws_configured, s3, aArgs, aFile, aRet, aLog>>
    /\ UNCHANGED <<fitVars, keyVars, parseVars, chatVars>>

\* lines 74-80: polly_client.synthesize_speech; any exception returns None
AudioSynthesize(c) ==
    /\ aPc[c] = "synth"
    /\ \E outcome \in {"ok", "fail"} :
          /\ aStats' = [aStats EXCEPT
                ![c].synth = outcome,
                ![c].said = <<SynthesizeRequest(strip(aArgs[c].text),
                                                aArgs[c].voice_id,
                                                aArgs[c].text_type)>>]
          /\ aPc' = [aPc EXCEPT ![c] = IF outcome = "ok" THEN "put" ELSE "returned"]
    /\ UNCHANGED <<aws_configured, s3, aArgs, aFile, aRet, aLog>>
    /\ UNCHANGED <<fitVars, keyVars, parseVars, chatVars>>

\* lines 83-88: s3_client.put_object of the synthesized stream
AudioPut(c) ==
    /\ aPc[c] = "put"
    /\ \E outcome \in {"ok", "fail"} :
          /\ aStats' = [aStats EXCEPT ![c].put = outcome]
          /\ aPc' = [aPc EXCEPT ![c] = IF outcome = "ok" THEN "presign" ELSE "returned"]
          /\ s3' = IF outcome = "ok"
                   THEN PutObject(s3, aFile[c],
                                  [text |-> strip(aArgs[c].text),
                                   voice_id |-> aArgs[c].voice_id,
                                   text_type |-> aArgs[c].text_type])
                   ELSE s3
    /\ UNCHANGED <<aws_configured, aArgs, aFile, aRet, aLog>>
    /\ UNCHANGED <<fitVars, keyVars, parseVars, chatVars>>

\* line 103 and get_presigned_url (31-44): a ClientError gives None
AudioPresign(c) ==
    /\ aPc[c] = "presign"
    /\ \E outcome \in {"ok", "client_error"} :
          /\ aStats' = [aStats EXCEPT ![c].presign = @ + 1]
          /\ aRet' = [aRet EXCEPT ![c] =
                        IF outcome = "ok" THEN PresignedUrl(aFile[c]) ELSE None]
    /\ aPc' = [aPc EXCEPT ![c] = "returned"]
    /\ UNCHANGED <<aws_configured, s3, aArgs, aFile, aLog>>
    /\ UNCHANGED <<fitVars, keyVars, parseVars, chatVars>>

\* ------------------------------------------------------------------------
\* FitSpec: the loop run on its own with a deterministic token counter,
\* then run a second time on its own output.
\* ------------------------------------------------------------------------

\* windows of every length 1..MaxWin, starting with either role; the i-th
\* message carries its index so that messages are distinguishable
FitWindows ==
    { [i \in 1..n |-> ChatMessage(RoleAt(first, i), <<i>>)] :
        n \in 1..MaxWin, first \in {"user", "model"} }

\* ------------------------------------------------------------------------
\* The reply parser (api/chat.py 198-221)
\* ------------------------------------------------------------------------

\* the two literal section markers; each is one element of a model string
SSML_TEXT == "[SSML_TEXT]"
DISPLAY_TEXT == "[DISPLAY_TEXT]"

\* sub in str
Contains(str, sub) == \E i \in 1..Len(str) : str[i] = sub

\* slip: the split is made at the last occurrence of sep
SplitOnce_Last(str, sep) ==
    LET at == CHOOSE i \in 1..Len(str) :
                  str[i] = sep /\ \A j \in (i + 1)..Len(str) : str[j] # sep
    IN <<SubSeq(str, 1, at - 1), SubSeq(str, at + 1, Len(str))>>

\* str.split(sep, 1) for a str that contains sep
SplitOnce(str, sep) ==
    LET at == CHOOSE i \in 1..Len(str) :
                  str[i] = sep /\ \A j \in 1..(i - 1) : str[j] # sep
    IN <<SubSeq(str, 1, at - 1), SubSeq(str, at + 1, Len(str))>>

\* str.replace(sub, "")
Remove(str, sub) == SelectSeq(str, LAMBDA ch : ch # sub)

\* slip: the plain fallback trims the reply
ParseReply_TrimmedFallback(ai_response_raw) ==
    LET plain == [display_text |-> strip(ai_response_raw), ssml_text |-> None,
                  text_for_audio |-> strip(ai_response_raw),
                  text_type_for_audio |-> "text"]
    IN IF Contains(ai_response_raw, SSML_TEXT)
       THEN LET parts == SplitOnce(ai_response_raw, SSML_TEXT)
                display_text_part == strip(Remove(parts[1], DISPLAY_TEXT))
                ssml_text_part == strip(parts[2])
            IN IF display_text_part # <<>> /\ ssml_text_part # <<>>
               THEN [display_text |-> display_text_part,
                     ssml_text |-> ssml_text_part,
                     text_for_audio |-> ssml_text_part,
                     text_type_for_audio |-> "ssml"]
               ELSE plain
       ELSE plain

\* slip: the two parts are taken without the test that both are non-empty
ParseReply_AcceptsEmpty(ai_response_raw) ==
    LET plain == [display_text |-> ai_response_raw, ssml_text |-> None,
                  text_for_audio |-> ai_response_raw,
                  text_type_for_audio |-> "text"]
    IN IF Contains(ai_response_raw, SSML_TEXT)
       THEN LET parts == SplitOnce(ai_response_raw, SSML_TEXT)
                display_text_part == strip(Remove(parts[1], DISPLAY_TEXT))
                ssml_text_part == strip(parts[2])
            IN [display_text |-> display_text_part,
                ssml_text |-> ssml_text_part,
                text_for_audio |-> ssml_text_part,
                text_type_for_audio |-> "ssml"]
       ELSE plain

\* lines 198-221: display text, ssml and what is handed to the audio cache
ParseReply(ai_response_raw) ==
    LET plain == [display_text |-> ai_response_raw, ssml_text |-> None,
                  text_for_audio |-> ai_response_raw,
                  text_type_for_audio |-> "text"]
    IN IF Contains(ai_response_raw, SSML_TEXT)
       THEN LET parts == SplitOnce(ai_response_raw, SSML_TEXT)
                display_text_part == strip(Remove(parts[1], DISPLAY_TEXT))
                ssml_text_part == strip(parts[2])
            IN IF display_text_part # <<>> /\ ssml_text_part # <<>>
               THEN [display_text |-> display_text_part,
                     ssml_text |-> ssml_text_part,
                     text_for_audio |-> ssml_text_part,
                     text_type_for_audio |-> "ssml"]
               ELSE plain
       ELSE plain

\* ------------------------------------------------------------------------
\* The session store (PostgreSQL through asyncpg, READ COMMITTED: the
\* isolation connection.transaction() gets when none is asked for)
\* ------------------------------------------------------------------------

SessionIds == {<<"s", 1>>}

PersonaIds == {<<"p", 1>>}

GEMINI_MODEL_VERSION == <<"g">>

DEFAULT_POLLY_VOICE_ID == <<"c">>

\* model versions the provider knows; any other raises NotFound
KnownModels == {GEMINI_MODEL_VERSION}

\* INSERT INTO chat_sessions (user_id, persona_id, bot_version): the row
\* starts with an empty history and no session_name
NewSession(persona_id, bot_version) ==
    [persona_id |-> persona_id, bot_version |-> bot_version,
     history |-> <<>>, session_name |-> None]

\* x or default
OrElse(x, default) == IF x = None \/ x = <<>> THEN default ELSE x

\* str[:n]
Prefix(str, n) == SubSeq(str, 1, IF Len(str) < n THEN Len(str) ELSE n)

\* the row another open transaction has written and not yet committed
\* holds the row lock: an UPDATE of the same row waits for it
Locked(session_id, r) ==
    \E q \in Callers \ {r} :
        txWrite[q] # {} /\ req[q].session_id = session_id

\* the row version request r reads or updates: its own uncommitted version
\* if it wrote one, else the latest committed version
CurrentRow(r) ==
    IF txWrite[r] # {}
    THEN CHOOSE row \in txWrite[r] : TRUE
    ELSE chat_sessions[req[r].session_id]

\* construct_system_prompt_from_persona: a prompt built from the record
construct_system_prompt_from_persona(persona) ==
    <<"prompt", persona.role_name>>

\* ------------------------------------------------------------------------
\* handle_chat_message (api/chat.py 135-251), one action per await
\* ------------------------------------------------------------------------

IdleReq ==
    [pc |-> "idle", session_id |-> None, message |-> None,
     persona_id |-> None, bot_version |-> None, system_instruction |-> None,
     pre |-> [found |-> FALSE, row |-> NewSession(None, None)],
     session_name |-> None, rec_persona_id |-> None,
     history_data |-> <<>>, history |-> <<>>, is_first_message |-> FALSE,
     session_voice_id |-> None, default_system_prompt |-> None,
     final_bot_version |-> None, final_system_instruction |-> None,
     ai_response_raw |-> None, display_text |-> None, ssml_text |-> None,
     sends |-> 0, audio_calls |-> 0, sent |-> <<>>,
     fault |-> "none", status |-> 0]

ChatIdle ==
    /\ chat_sessions = <<>>
    /\ personas = <<>>
    /\ txWrite = [r \in Callers |-> {}]
    /\ req = [r \in Callers |-> IdleReq]
    /\ turns = 0

\* request bodies
Messages == {<<"H", "i">>, [i \in 1..(SESSION_NAME_LENGTH + 1) |-> "y"]}

RequestPersonaIds == {None} \cup PersonaIds

\* request.bot_version as the handler reads it on lines 143-144 (the
\* MessageRequest class of models/chat.py does not declare the field);
\* "x" is a version the provider does not know
RequestVersions == {None, <<"x">>}

\* raw replies of the model
Replies ==
    { <<"o", "k">>,
      <<DISPLAY_TEXT, "o", "k", SSML_TEXT, "a">> }

\* slip: every turn is taken for the first one
IsFirstMessage_Always(history_data) == TRUE

\* slip: no turn is taken for the first one
IsFirstMessage_Never(history_data) == FALSE

\* is_first_message = not history_data
IsFirstMessage(history_data) == history_data = <<>>

\* slip: the failure is swallowed and the handler goes on to persist
OnProviderFailure_Swallow(kind) ==
    [pc |-> "update", status |-> 0]

\* slip: every provider failure is answered 503
OnProviderFailure_AllUnavailable(kind) ==
    [pc |-> "failed", status |-> 503]

\* slip: the failure is ignored and the handler goes on to the model call
OnProviderFailure_Proceed(kind) ==
    [pc |-> "send", status |-> 0]

\* the except clauses of lines 227-231
OnProviderFailure(kind) ==
    IF kind = "not_found"
    THEN [pc |-> "failed", status |-> 400]
    ELSE [pc |-> "failed", status |-> 503]

\* slip: the exception leaves what the request wrote in place
Raise_NoRollback(r, pc, status, fault) ==
    /\ req' = [req EXCEPT ![r] = [@ EXCEPT
                  !.pc = pc, !.status = status, !.fault = fault,
                  !.sends = IF req[r].pc = "send" THEN @ + 1 ELSE @]]
    /\ UNCHANGED txWrite

\* the request leaves the handler through an exception: the transaction
\* context manager rolls back what the request wrote (an exception met at
\* "send" was raised by the send_message_async call that had been made)
Raise(r, pc, status, fault) ==
    /\ req' = [req EXCEPT ![r] = [@ EXCEPT
                  !.pc = pc, !.status = status, !.fault = fault,
                  !.sends = IF req[r].pc = "send" THEN @ + 1 ELSE @]]
    /\ txWrite' = [txWrite EXCEPT ![r] = IF pc = "failed" THEN {} ELSE @]

\* the first statement the request body makes the handler run
FirstPc(persona_id, bot_version) ==
    IF persona_id # None THEN "upd_persona"
    ELSE IF bot_version # None THEN "upd_version"
    ELSE "select"

\* request.config.system_instruction when the request sets it
RequestInstructions == {None, <<"O">>}

\* lines 136-140: the request arrives and its transaction starts; it is
\* for one of `sessions` and its config.system_instruction is one of
\* `instructions`
BeginWith(r, sessions, instructions) ==
    /\ req[r].pc = "idle"
    /\ turns < MaxTurns
    /\ \E session_id \in sessions, message \in Messages,
          persona_id \in RequestPersonaIds, bot_version \in RequestVersions,
          system_instruction \in instructions :
          req' = [req EXCEPT ![r] =
                    [IdleReq EXCEPT
                       !.pc = FirstPc(persona_id, bot_version),
                       !.session_id = session_id,
                       !.message = message,
                       !.system_instruction = system_instruction,
                       !.persona_id = persona_id,
                       !.bot_version = bot_version,
                       !.pre = IF session_id \in DOMAIN chat_sessions
                               THEN [found |-> TRUE,
                                     row |-> chat_sessions[session_id]]
                               ELSE @]]
    /\ turns' = turns + 1
    /\ UNCHANGED <<dbVars, audioVars, fitVars, keyVars, parseVars>>

\* a request that carries no config
Begin(r) == BeginWith(r, SessionIds, {None})

\* a request that may carry config.system_instruction
BeginConfigured(r) == BeginWith(r, SessionIds, RequestInstructions)

\* lines 141-142: UPDATE chat_sessions SET persona_id
UpdatePersona(r) ==
    /\ req[r].pc = "upd_persona"
    /\ IF req[r].session_id \in DOMAIN chat_sessions
       THEN /\ ~Locked(req[r].session_id, r)
            /\ txWrite' = [txWrite EXCEPT ![r] =
                 {[CurrentRow(r) EXCEPT !.persona_id = req[r].persona_id]}]
       ELSE UNCHANGED txWrite
    /\ req' = [req EXCEPT ![r].pc = FirstPc(None, req[r].bot_version)]
    /\ UNCHANGED <<chat_sessions, personas, turns, audioVars, fitVars, keyVars, parseVars>>

\* lines 143-144: UPDATE chat_sessions SET bot_version
UpdateVersion(r) ==
    /\ req[r].pc = "upd_version"
    /\ IF req[r].session_id \in DOMAIN chat_sessions
       THEN /\ ~Locked(req[r].session_id, r)
            /\ txWrite' = [txWrite EXCEPT ![r] =
                 {[CurrentRow(r) EXCEPT !.bot_version = req[r].bot_version]}]
       ELSE UNCHANGED txWrite
    /\ req' = [req EXCEPT ![r].pc = "select"]
    /\ UNCHANGED <<chat_sessions, personas, turns, audioVars, fitVars, keyVars, parseVars>>

\* lines 146-177 without the persona query: SELECT the session, 404 if it
\* is missing, else the locals computed from the record and the request
Select(r) ==
    /\ req[r].pc = "select"
    /\ IF req[r].session_id \notin DOMAIN chat_sessions
       THEN Raise(r, "failed", 404, "session")
       ELSE LET session_record == CurrentRow(r)
                history_data == session_record.history
            IN /\ req' = [req EXCEPT ![r] = [@ EXCEPT
                    !.pc = IF session_record.persona_id # None
                           THEN "persona" ELSE "count",
                    !.session_name = session_record.session_name,
                    !.rec_persona_id = session_record.persona_id,
                    !.session_voice_id = DEFAULT_POLLY_VOICE_ID,
                    !.history_data = history_data,
                    !.is_first_message = IsFirstMessage(history_data),
                    !.history = Append(history_data,
                                       ChatMessage("user", req[r].message)),
                    !.final_system_instruction = req[r].system_instruction,
                    !.final_bot_version =
                        OrElse(session_record.bot_version, GEMINI_MODEL_VERSION)]]
               /\ UNCHANGED txWrite
    /\ UNCHANGED <<chat_sessions, personas, turns, audioVars, fitVars, keyVars, parseVars>>

\* slip: the persona's prompt wins over the request's override
SelectPersona_PersonaWins(r) ==
    /\ req[r].pc = "persona"
    /\ LET found == req[r].rec_persona_id \in DOMAIN personas
           persona_record == personas[req[r].rec_persona_id]
           default_system_prompt ==
               IF found THEN construct_system_prompt_from_persona(persona_record)
               ELSE None
       IN req' = [req EXCEPT ![r] = [@ EXCEPT
              !.pc = "count",
              !.default_system_prompt = default_system_prompt,
              !.session_voice_id =
                  IF found THEN OrElse(persona_record.voice_id, @) ELSE @,
              !.final_system_instruction =
                  IF default_system_prompt # None
                  THEN default_system_prompt
                  ELSE req[r].system_instruction]]
    /\ UNCHANGED <<dbVars, turns, audioVars, fitVars, keyVars, parseVars>>

\* lines 153-158 and 176: SELECT the persona; prompt and voice come from it
\* when the record exists
SelectPersona(r) ==
    /\ req[r].pc = "persona"
    /\ LET found == req[r].rec_persona_id \in DOMAIN personas
           persona_record == personas[req[r].rec_persona_id]
           default_system_prompt ==
               IF found THEN construct_system_prompt_from_persona(persona_record)
               ELSE None
       IN req' = [req EXCEPT ![r] = [@ EXCEPT
              !.pc = "count",
              !.default_system_prompt = default_system_prompt,
              !.session_voice_id =
                  IF found THEN OrElse(persona_record.voice_id, @) ELSE @,
              !.final_system_instruction =
                  IF req[r].system_instruction # None
                  THEN req[r].system_instruction
                  ELSE default_system_prompt]]
    /\ UNCHANGED <<dbVars, turns, audioVars, fitVars, keyVars, parseVars>>

\* what count_tokens_async can do for a model version
CountOutcomes(bot_version) ==
    IF bot_version \in KnownModels
    THEN { [kind |-> "ok", total_tokens |-> n] : n \in TokenValues }
         \cup {[kind |-> "error", total_tokens |-> 0]}
    ELSE { [kind |-> k, total_tokens |-> 0] : k \in {"not_found", "error"} }

\* lines 182-187: one iteration of the truncation loop
CountTokens(r) ==
    /\ req[r].pc = "count"
    /\ \E outcome \in CountOutcomes(req[r].final_bot_version) :
          IF outcome.kind = "ok"
          THEN LET step == TruncationStep(req[r].history, outcome.total_tokens)
               IN /\ req' = [req EXCEPT ![r] = [@ EXCEPT
                        !.history = step.history,
                        !.pc = IF step.brk THEN "send" ELSE "count"]]
                  /\ UNCHANGED txWrite
          ELSE LET out == OnProviderFailure(outcome.kind)
               IN Raise(r, out.pc, out.status, "count_" \o outcome.kind)
    /\ UNCHANGED <<chat_sessions, personas, turns, audioVars, fitVars, keyVars, parseVars>>

\* lines 189-195: start_chat gets the window without its last message,
\* send_message_async the parts of the last message
SendRequest(history) ==
    [history |-> SubSeq(history, 1, Len(history) - 1),
     content |-> history[Len(history)].content]

\* what send_message_async can do
SendOutcomes ==
    { [kind |-> "ok", text |-> t] : t \in Replies }
    \cup { [kind |-> k, text |-> <<>>] : k \in {"not_found", "error"} }

\* lines 189-223: the model call, the parser, and the entry of
\* get_or_create_audio_url (which runs up to its first call to S3)
SendMessage(r) ==
    /\ req[r].pc = "send"
    /\ \E outcome \in SendOutcomes :
          IF outcome.kind = "ok"
          THEN LET parsed == ParseReply(outcome.text)
               IN /\ req' = [req EXCEPT ![r] = [@ EXCEPT
                        !.pc = "audio",
                        !.sends = @ + 1,
                        !.sent = <<SendRequest(req[r].history)>>,
                        !.audio_calls = @ + 1,
                        !.ai_response_raw = outcome.text,
                        !.display_text = parsed.display_text,
                        !.ssml_text = parsed.ssml_text]]
                  /\ AudioCall(r, parsed.text_for_audio,
                               req[r].session_voice_id,
                               parsed.text_type_for_audio)
                  /\ UNCHANGED txWrite
          ELSE LET out == OnProviderFailure(outcome.kind)
               IN /\ Raise(r, out.pc, out.status, "send_" \o outcome.kind)
                  /\ UNCHANGED audioVars
    /\ UNCHANGED <<chat_sessions, personas, turns, fitVars, keyVars, parseVars>>

\* slip: the reply is appended under the role "assistant"
AfterAudio_AssistantRole(r) ==
    /\ req[r].pc = "audio"
    /\ aPc[r] \in {"returned", "raised"}
    /\ IF aPc[r] = "returned"
       THEN /\ req' = [req EXCEPT ![r] = [@ EXCEPT
                  !.pc = "update",
                  !.history = Append(@, ChatMessage("assistant",
                                                    req[r].display_text))]]
            /\ UNCHANGED txWrite
       ELSE Raise(r, "failed", 503, "audio")
    /\ aPc' = [aPc EXCEPT ![r] = "idle"]
    /\ aArgs' = [aArgs EXCEPT ![r] = None]
    /\ aFile' = [aFile EXCEPT ![r] = None]
    /\ aRet' = [aRet EXCEPT ![r] = None]
    /\ aStats' = [aStats EXCEPT ![r] = NoStats]
    /\ UNCHANGED <<chat_sessions, personas, turns>>
    /\ UNCHANGED <<aws_configured, s3, aLog, fitVars, keyVars, parseVars>>

\* lines 223-231: get_or_create_audio_url is over; its value goes into the
\* model message (ChatMessage keeps role and content), or its exception is
\* caught by `except Exception`
AfterAudio(r) ==
    /\ req[r].pc = "audio"
    /\ aPc[r] \in {"returned", "raised"}
    /\ IF aPc[r] = "returned"
       THEN /\ req' = [req EXCEPT ![r] = [@ EXCEPT
                  !.pc = "update",
                  !.history = Append(@, ChatMessage("model", req[r].display_text))]]
            /\ UNCHANGED txWrite
       ELSE Raise(r, "failed", 503, "audio")
    /\ aPc' = [aPc EXCEPT ![r] = "idle"]
    /\ aArgs' = [aArgs EXCEPT ![r] = None]
    /\ aFile' = [aFile EXCEPT ![r] = None]
    /\ aRet' = [aRet EXCEPT ![r] = None]
    /\ aStats' = [aStats EXCEPT ![r] = NoStats]
    /\ UNCHANGED <<chat_sessions, personas, turns>>
    /\ UNCHANGED <<aws_configured, s3, aLog, fitVars, keyVars, parseVars>>

\* lines 233-239: UPDATE chat_sessions SET history (and session_name)
UpdateHistory(r) ==
    /\ req[r].pc = "update"
    /\ IF req[r].session_id \in DOMAIN chat_sessions
       THEN /\ ~Locked(req[r].session_id, r)
            /\ txWrite' = [txWrite EXCEPT ![r] =
                 {[CurrentRow(r) EXCEPT
                     !.history = req[r].history,
                     !.session_name =
                         IF req[r].is_first_message
                         THEN Prefix(req[r].message, SESSION_NAME_LENGTH)
                         ELSE @]}]
       ELSE UNCHANGED txWrite
    /\ req' = [req EXCEPT ![r].pc = "commit"]
    /\ UNCHANGED <<chat_sessions, personas, turns, audioVars, fitVars, keyVars, parseVars>>

\* slip: the UPDATE statements have no WHERE clause, every row is written
Commit_AllRows(r) ==
    /\ req[r].pc = "commit"
    /\ chat_sessions' =
          IF txWrite[r] # {}
          THEN [session_id \in DOMAIN chat_sessions |-> CurrentRow(r)]
          ELSE chat_sessions
    /\ txWrite' = [txWrite EXCEPT ![r] = {}]
    /\ req' = [req EXCEPT ![r] = [@ EXCEPT !.pc = "done", !.status = 200]]
    /\ UNCHANGED <<personas, turns, audioVars, fitVars, keyVars, parseVars>>

\* lines 241-251: the response is built and the transaction commits
Commit(r) ==
    /\ req[r].pc = "commit"
    /\ chat_sessions' =
          IF txWrite[r] # {}
          THEN [chat_sessions EXCEPT ![req[r].session_id] = CurrentRow(r)]
          ELSE chat_sessions
    /\ txWrite' = [txWrite EXCEPT ![r] = {}]
    /\ req' = [req EXCEPT ![r] = [@ EXCEPT !.pc = "done", !.status = 200]]
    /\ UNCHANGED <<personas, turns, audioVars, fitVars, keyVars, parseVars>>

\* the response has been sent; the slot takes the next request
Finish(r) ==
    /\ req[r].pc \in {"done", "failed"}
    /\ req' = [req EXCEPT ![r] = IdleReq]
    /\ UNCHANGED <<dbVars, turns, audioVars, fitVars, keyVars, parseVars>>

\* the steps of a request after it has begun
HandlerStep(r) ==
    \/ UpdatePersona(r)
    \/ UpdateVersion(r)
    \/ Select(r)
    \/ SelectPersona(r)
    \/ CountTokens(r)
    \/ SendMessage(r)
    \/ AudioHead(r)
    \/ AudioSynthesize(r)
    \/ AudioPut(r)
    \/ AudioPresign(r)
    \/ AfterAudio(r)
    \/ UpdateHistory(r)
    \/ Commit(r)
    \/ Finish(r)

\* start_chat_session (api/chat.py 77-99): INSERT a session row
start_chat_session ==
    /\ \E session_id \in SessionIds \ DOMAIN chat_sessions,
          persona_id \in RequestPersonaIds, bot_version \in RequestVersions :
          /\ chat_sessions' =
                chat_sessions @@ (session_id :> NewSession(persona_id, bot_version))
    /\ UNCHANGED <<personas, txWrite, req, turns, audioVars, fitVars, keyVars, parseVars>>

\* lines 120-125 for one stored message: a model message gets the URL that
\* get_presigned_url makes for the filename recomputed from its text and
\* the session's present voice (a stored message holds no ssml, so the
\* text is msg.content); no call asks the bucket whether the key exists
EnrichedMessage(msg, session_voice_id, presign) ==
    [role |-> msg.role, content |-> msg.content,
     audio_url |->
        IF msg.role = "model" /\ presign = "ok"
        THEN PresignedUrl(generate_audio_filename(msg.content, session_voice_id))
        ELSE None]

\* what the presigner does for each message of a history (it is only
\* called for model messages)
PresignOutcomes(history_data) ==
    { f \in [1..Len(history_data) -> {"ok", "client_error"}] :
        \A i \in 1..Len(history_data) :
           history_data[i].role # "model" => f[i] = "ok" }

\* get_chat_history (api/chat.py 101-133), served in slot r: the session
\* SELECT, the persona SELECT for the voice, and the enriched history
get_chat_history(r) ==
    /\ req[r].pc = "idle"
    /\ \E session_id \in SessionIds :
          IF session_id \notin DOMAIN chat_sessions
          THEN req' = [req EXCEPT ![r] =
                         [IdleReq EXCEPT !.pc = "failed",
                                         !.session_id = session_id,
                                         !.status = 404,
                                         !.fault = "session"]]
          ELSE LET session_record == chat_sessions[session_id]
                   persona_id == session_record.persona_id
                   found == persona_id \in DOMAIN personas
                   session_voice_id ==
                       IF found
                       THEN OrElse(personas[persona_id].voice_id,
                                   DEFAULT_POLLY_VOICE_ID)
                       ELSE DEFAULT_POLLY_VOICE_ID
                   history_data == session_record.history
               IN \E presign \in PresignOutcomes(history_data) :
                     req' = [req EXCEPT ![r] =
                        [IdleReq EXCEPT
                           !.pc = "done",
                           !.session_id = session_id,
                           !.status = 200,
                           !.session_voice_id = session_voice_id,
                           !.history_data = history_data,
                           !.history =
                               [i \in 1..Len(history_data) |->
                                  EnrichedMessage(history_data[i],
                                                  session_voice_id,
                                                  presign[i])]]]
    /\ UNCHANGED <<dbVars, turns, audioVars, fitVars, keyVars, parseVars>>

\* get_user_sessions (api/users.py 10-27): the sessions listed, those whose
\* session_name IS NOT NULL (all sessions of the model belong to one user)
get_user_sessions ==
    { session_id \in DOMAIN chat_sessions :
        chat_sessions[session_id].session_name # None }

\* delete_persona (api/personas.py 63-71): DELETE FROM personas
delete_persona ==
    /\ \E prompt_id \in DOMAIN personas :
          personas' = [p \in DOMAIN personas \ {prompt_id} |-> personas[p]]
    /\ UNCHANGED <<chat_sessions, txWrite, req, turns, audioVars, fitVars, keyVars, parseVars>>

\* the values the variables of the other components have while unused
KeyIdle == keyIn = <<>> /\ keyOut = <<>>

ParseIdle == parseIn = <<>> /\ parseOut = <<>>

AudioIdle ==
    /\ aws_configured = TRUE
    /\ s3 = {}
    /\ aPc = [c \in Callers |-> "idle"]
    /\ aArgs = [c \in Callers |-> None]
    /\ aFile = [c \in Callers |-> None]
    /\ aRet = [c \in Callers |-> None]
    /\ aStats = [c \in Callers |-> NoStats]
    /\ aLog = <<>>

FitIdle ==
    /\ fitPc = "off"
    /\ fitWin = <<>>
    /\ fitIn = <<>>
    /\ fitCounter = <<>>
    /\ fitTotal = 0
    /\ fitOut1 = <<>>
    /\ fitCalls = 0

FitInit ==
    /\ KeyIdle /\ ParseIdle /\ AudioIdle /\ ChatIdle
    /\ fitPc = "count"
    /\ fitWin \in FitWindows
    /\ fitIn = fitWin
    /\ fitCounter \in [1..MaxWin -> TokenValues]
    /\ fitTotal = 0
    /\ fitOut1 = <<>>
    /\ fitCalls = 0

\* total_tokens = await model.count_tokens_async(...); then the two ifs
FitIterate ==
    /\ fitPc \in {"count", "count2"}
    /\ LET total == fitCounter[Len(fitWin)]
           step  == TruncationStep(fitWin, total)
       IN /\ fitTotal' = total
          /\ fitWin' = step.history
          /\ fitCalls' = fitCalls + 1
          /\ fitPc' = IF step.brk
                      THEN (IF fitPc = "count" THEN "done" ELSE "done2")
                      ELSE fitPc
    /\ UNCHANGED <<fitCounter, fitIn, fitOut1, keyVars, parseVars, audioVars, chatVars>>

\* fit applied again to the window the first pass produced
FitAgain ==
    /\ fitPc = "done"
    /\ fitPc' = "count2"
    /\ fitOut1' = fitWin
    /\ fitCalls' = 0
    /\ UNCHANGED <<fitWin, fitIn, fitTotal, fitCounter, keyVars, parseVars, audioVars, chatVars>>

FitNext == FitIterate \/ FitAgain

FitSpec == FitInit /\ [][FitNext]_vars

\* what the deterministic counter reports for the current window
FitMeasured == fitCounter[Len(fitWin)]

\* w is h with an even number of its oldest messages removed
IsPairSuffix(w, h) ==
    /\ Len(w) <= Len(h)
    /\ (Len(h) - Len(w)) % 2 = 0
    /\ w = SubSeq(h, Len(h) - Len(w) + 1, Len(h))

\* ------------------------------------------------------------------------
\* Claims about the truncation loop
\* ------------------------------------------------------------------------

\* C1 (as claimed): a truncation step happens only when the count measured
\* before it exceeds the budget, and it never leaves fewer than 2 messages
\* in the window, for windows of every length.
C1_TruncationFloor ==
    [][ fitWin' # fitWin =>
          /\ fitCounter[Len(fitWin)] > MAX_CONVERSATION_TOKENS
          /\ Len(fitWin') >= 2 ]_vars

\* C2: when the loop has exited, the measured token count of the resulting
\* window is within the budget or the window has at most 2 messages.
C2_PostTruncation ==
    fitPc \in {"done", "done2"} =>
        \/ FitMeasured <= MAX_CONVERSATION_TOKENS
        \/ Len(fitWin) <= 2

\* the loop removed a pair and stopped on a fitting window above the floor
C2_Witness ==
    /\ fitPc = "done"
    /\ Len(fitWin) = 3
    /\ Len(fitIn) = 5
    /\ FitMeasured <= MAX_CONVERSATION_TOKENS

\* C3: running the loop again on its own output, with the same counter and
\* budget, removes nothing: fit(fit(h)) = fit(h).
C3_Idempotent ==
    fitPc = "done2" => fitWin = fitOut1

\* the second pass has finished on a window the first pass had truncated
\* down to the floor while it was still over budget
C3_Witness ==
    /\ fitPc = "done2"
    /\ fitOut1 # <<>>
    /\ Len(fitOut1) <= 2
    /\ fitCounter[Len(fitOut1)] > MAX_CONVERSATION_TOKENS
    /\ Len(fitIn) > Len(fitOut1)

\* C4: every truncation step removes exactly the two oldest messages, so the
\* window stays a suffix of the original, shorter by a multiple of 2, and a
\* window that alternated user/model from a user message still does.
C4_RolePairRemoval ==
    /\ [](/\ IsPairSuffix(fitWin, fitIn)
          /\ (AlternatesFromUser(fitIn) => AlternatesFromUser(fitWin)))
    /\ [][ fitWin' # fitWin => fitWin' = SubSeq(fitWin, 3, Len(fitWin)) ]_vars

\* two truncation steps were taken on an alternating window
C4_Witness ==
    /\ fitPc = "done"
    /\ AlternatesFromUser(fitIn)
    /\ Len(fitIn) - Len(fitWin) = 4

\* FitLiveSpec: the loop with a counter that always returns, so that an
\* enabled iteration is eventually taken
FitLiveSpec == FitSpec /\ WF_vars(FitNext)

\* the window the current pass started from
FitPassInput == IF fitPc \in {"count", "done"} THEN fitIn ELSE fitOut1

\* pairs of messages the current pass has removed so far
FitRemovedPairs == (Len(FitPassInput) - Len(fitWin)) \div 2

\* the counting calls of a pass number at most its removed pairs plus one
FitCallBound == fitCalls <= FitRemovedPairs + 1

\* C26: for every window and every counter that always returns, the one
\* that always reports over budget included, the loop exits (the first pass
\* and the pass over its output), with at most one counting call per
\* removed pair plus one.
C26_TruncationTerminates == <>(fitPc = "done2") /\ []FitCallBound

\* a pass over the longest window with a counter that is always over
\* budget has exited after its third counting call
C26_Witness ==
    /\ fitPc = "done"
    /\ \A n \in DOMAIN fitCounter : fitCounter[n] > MAX_CONVERSATION_TOKENS
    /\ Len(fitIn) >= 5
    /\ fitCalls = FitRemovedPairs + 1
    /\ fitCalls >= 3

\* ------------------------------------------------------------------------
\* KeySpec: generate_audio_filename applied to two argument pairs
\* ------------------------------------------------------------------------

\* voice identifiers (personas.voice_id is a free-form string)
VoiceIds == {<<"c">>, <<"b", "c">>}

KeyTexts == StringsUpTo({"a", "b", " "}, MaxTextLen)

KeyInit ==
    /\ FitIdle /\ ParseIdle /\ AudioIdle /\ ChatIdle
    /\ keyIn \in [first : KeyTexts \X VoiceIds, second : KeyTexts \X VoiceIds]
    /\ keyOut = <<>>

\* the first pair is fingerprinted twice, the second once
GenerateFilenames ==
    /\ keyOut = <<>>
    /\ keyOut' = [first  |-> generate_audio_filename(keyIn.first[1], keyIn.first[2]),
                  again  |-> generate_audio_filename(keyIn.first[1], keyIn.first[2]),
                  second |-> generate_audio_filename(keyIn.second[1], keyIn.second[2])]
    /\ UNCHANGED <<keyIn, parseVars, fitVars, audioVars, chatVars>>

KeyNext == GenerateFilenames

KeySpec == KeyInit /\ [][KeyNext]_vars

\* C10 (as claimed): the filename is the same on a repeated call, and two
\* argument pairs that differ in the trimmed text or in the voice identifier
\* get different filenames.
C10_FingerprintSeparation ==
    keyOut # <<>> =>
        /\ keyOut.again = keyOut.first
        /\ (\/ strip(keyIn.first[1]) # strip(keyIn.second[1])
            \/ keyIn.first[2] # keyIn.second[2])
           => keyOut.first # keyOut.second

\* ------------------------------------------------------------------------
\* AudioSpec: get_or_create_audio_url called directly, one call after the
\* other, against a bucket that starts empty
\* ------------------------------------------------------------------------

\* the volume attribute, one element of a model string
VOLUME == " volume=\"loud\""

\* <prosody volume="loud">a</prosody>
LoudMarkup == <<"<prosody", VOLUME, ">", "a", "</prosody>">>

AudioTexts == {<<"a">>, <<" ", "a">>, <<" ">>, LoudMarkup}

TextTypes == {"text", "ssml"}

AudioInit ==
    /\ FitIdle /\ KeyIdle /\ ParseIdle /\ ChatIdle
    /\ aws_configured \in BOOLEAN
    /\ s3 = {}
    /\ aPc = [c \in Callers |-> "idle"]
    /\ aArgs = [c \in Callers |-> None]
    /\ aFile = [c \in Callers |-> None]
    /\ aRet = [c \in Callers |-> None]
    /\ aStats = [c \in Callers |-> NoStats]
    /\ aLog = <<>>

\* a caller invokes get_or_create_audio_url(text, voice_id, text_type)
DirectCall ==
    /\ Len(aLog) < MaxCalls
    /\ \E text \in AudioTexts, voice_id \in VoiceIds, text_type \in TextTypes :
          AudioCall("r1", text, voice_id, text_type)
    /\ UNCHANGED <<fitVars, keyVars, parseVars, chatVars>>

\* the call is over (a value was returned or an exception left the function)
DirectReturn ==
    /\ aPc["r1"] \in {"returned", "raised"}
    /\ aLog' = Append(aLog, [args |-> aArgs["r1"], file |-> aFile["r1"],
                             ret |-> aRet["r1"], stats |-> aStats["r1"],
                             raised |-> aPc["r1"] = "raised"])
    /\ aPc' = [aPc EXCEPT !["r1"] = "idle"]
    /\ UNCHANGED <<aws_configured, s3, aArgs, aFile, aRet, aStats>>
    /\ UNCHANGED <<fitVars, keyVars, parseVars, chatVars>>

AudioNext ==
    \/ DirectCall
    \/ AudioHead("r1")
    \/ AudioSynthesize("r1")
    \/ AudioPut("r1")
    \/ AudioPresign("r1")
    \/ DirectReturn

AudioSpec == AudioInit /\ [][AudioNext]_vars

\* no capability failed during the logged call
Faultless(call) ==
    /\ call.stats.head \in {"ok", "404"}
    /\ call.stats.synth # "fail"
    /\ call.stats.put # "fail"
    /\ call.stats.presign = 1 => call.ret # None

\* the i-th logged call found the bucket without its key: no earlier call
\* had put an object under that key
FoundNoKey(i) ==
    \A k \in 1..(i - 1) :
        ~(aLog[k].file = aLog[i].file /\ aLog[k].stats.put = "ok")

\* C8: from a bucket without the key, a first call (clients configured, text
\* not empty after trimming, no capability failing) makes exactly one
\* synthesize call and one put under the fingerprint key and returns its URL;
\* a later call with identical inputs makes no synthesize call and no put,
\* and the URL it returns is for the same key.
C8_FillThenHit ==
    \A i \in 1..Len(aLog) : \A j \in (i + 1)..Len(aLog) :
        ( /\ aLog[i].file # None
          /\ FoundNoKey(i)
          /\ Faultless(aLog[i])
          /\ aLog[j].args = aLog[i].args )
        => /\ aLog[i].stats.synth = "ok"
           /\ aLog[i].stats.put = "ok"
           /\ aLog[i].ret = PresignedUrl(aLog[i].file)
           /\ aLog[i].file \in S3Keys
           /\ aLog[j].stats.synth = "none"
           /\ aLog[j].stats.put = "none"
           /\ aLog[j].ret \in {None, PresignedUrl(aLog[i].file)}
           /\ Faultless(aLog[j]) => aLog[j].ret = PresignedUrl(aLog[i].file)

\* a miss that was filled, followed by a hit with the same inputs
C8_Witness ==
    /\ Len(aLog) >= 2
    /\ aLog[1].stats.head = "404"
    /\ aLog[1].stats.put = "ok"
    /\ aLog[1].ret # None
    /\ aLog[2].args = aLog[1].args
    /\ aLog[2].stats.head = "ok"
    /\ aLog[2].ret = aLog[1].ret

\* what fail-closed means for one invocation, running or finished
FailClosed(ret, stats, file) ==
    /\ ret # None =>
          /\ stats.head = "ok" \/ (stats.synth = "ok" /\ stats.put = "ok")
          /\ ret = PresignedUrl(file)
          /\ file \in S3Keys
    /\ ( \/ stats.head \in {"client_error", "error"}
         \/ stats.synth = "fail"
         \/ stats.put = "fail" )
       => (ret = None /\ stats.presign = 0)

\* C9: a URL is returned only if the existence check succeeded or synthesis
\* and put both succeeded in that call; after an existence-check failure
\* other than not-found, or a synthesis or put failure, no URL is returned
\* and no pre-signed URL is issued.
C9_FailClosed ==
    /\ \A c \in Callers : FailClosed(aRet[c], aStats[c], aFile[c])
    /\ \A i \in 1..Len(aLog) :
          FailClosed(aLog[i].ret, aLog[i].stats, aLog[i].file)

\* a call ended without a URL after head_object failed with a ClientError
\* that is not a 404, and another after a failed put
C9_Witness ==
    /\ Len(aLog) >= 2
    /\ aLog[1].stats.head = "client_error"
    /\ aLog[1].ret = None
    /\ aLog[2].stats.put = "fail"
    /\ aLog[2].ret = None

\* C15: a call whose text is empty after trimming returns None without a
\* call to head_object, synthesize_speech, put_object or the presigner.
C15_EmptyTextShortCircuit ==
    /\ \A c \in Callers :
          (aPc[c] # "idle" /\ strip(aArgs[c].text) = <<>>)
          => /\ aPc[c] = "returned"
             /\ aRet[c] = None
             /\ aStats[c] = NoStats
    /\ \A i \in 1..Len(aLog) :
          strip(aLog[i].args.text) = <<>>
          => /\ ~aLog[i].raised
             /\ aLog[i].ret = None
             /\ aLog[i].stats = NoStats

\* with the clients configured, a call with a blank text has returned None
\* with no call made, and the bucket is as the earlier call left it
C15_Witness ==
    /\ aws_configured
    /\ Len(aLog) = 2
    /\ aLog[1].stats.put = "ok"
    /\ aLog[2].args.text = <<" ">>
    /\ aLog[2].ret = None
    /\ aLog[2].stats = NoStats
    /\ Cardinality(s3) = 1

\* C21 (as claimed): the text given to synthesize_speech is, for text
\* type 'ssml', the trimmed input with the volume attribute removed and all
\* other markup unchanged, and for type 'text' the trimmed input unchanged.
C21_SanitizedBeforeSynthesis ==
    \A i \in 1..Len(aLog) :
       aLog[i].stats.said # <<>> =>
          LET clean_text == strip(aLog[i].args.text)
          IN aLog[i].stats.said[1].Text =
                IF aLog[i].args.text_type = "ssml"
                THEN Remove(clean_text, VOLUME)
                ELSE clean_text

\* the text type of the call that produced the object stored under key
ProducedAs(key) == { o.body.text_type : o \in { x \in s3 : x.key = key } }

\* C23: after a call has stored an object for (text, voice) with one text
\* type, a later call with the same trimmed text and voice and the other
\* text type hits the same key, makes no synthesize call and no put, and
\* returns the URL of the object the first call produced.
C23_KindNotInKey ==
    \A i \in 1..Len(aLog) : \A j \in (i + 1)..Len(aLog) :
        ( /\ aLog[i].file # None
          /\ FoundNoKey(i)
          /\ Faultless(aLog[i])
          /\ Faultless(aLog[j])
          /\ strip(aLog[j].args.text) = strip(aLog[i].args.text)
          /\ aLog[j].args.voice_id = aLog[i].args.voice_id
          /\ aLog[j].args.text_type # aLog[i].args.text_type )
        => /\ aLog[i].stats.put = "ok"
           /\ aLog[j].file = aLog[i].file
           /\ aLog[j].stats.head = "ok"
           /\ aLog[j].stats.synth = "none"
           /\ aLog[j].stats.put = "none"
           /\ aLog[j].ret = PresignedUrl(aLog[i].file)
           /\ ProducedAs(aLog[i].file) = {aLog[i].args.text_type}

\* markup first synthesized as plain text is served, from the same key, to
\* a later call that asks for it as ssml
C23_Witness ==
    /\ Len(aLog) = 2
    /\ aLog[1].args.text = LoudMarkup
    /\ aLog[1].args.text_type = "text"
    /\ aLog[1].stats.put = "ok"
    /\ aLog[2].args.text = LoudMarkup
    /\ aLog[2].args.voice_id = aLog[1].args.voice_id
    /\ aLog[2].args.text_type = "ssml"
    /\ aLog[2].stats.head = "ok"
    /\ aLog[2].ret # None
    /\ aLog[2].ret = aLog[1].ret
    /\ ProducedAs(aLog[2].file) = {"text"}

\* ------------------------------------------------------------------------
\* ChatSpec: sessions are started and message requests run concurrently in
\* the two slots.  SeqSpec: the same, one message request at a time.
\* ------------------------------------------------------------------------

ChatInit ==
    /\ FitIdle /\ KeyIdle /\ ParseIdle /\ AudioIdle
    /\ chat_sessions = <<>>
    /\ personas = (<<"p", 1>> :> [role_name |-> <<"T">>, voice_id |-> <<"b", "c">>])
    /\ txWrite = [r \in Callers |-> {}]
    /\ req = [r \in Callers |-> IdleReq]
    /\ turns = 0

\* each slot serves one request
BeginOnce(r) == turns < Cardinality(Callers) /\ Begin(r)

ChatNext ==
    \/ start_chat_session
    \/ \E r \in Callers : BeginOnce(r) \/ HandlerStep(r)

ChatSpec == ChatInit /\ [][ChatNext]_vars

\* requests arrive one after the other and are served in the first slot
SeqNext ==
    \/ start_chat_session
    \/ Begin("r1")
    \/ HandlerStep("r1")

SeqSpec == ChatInit /\ [][SeqNext]_vars

\* the committed row of the session a request addresses
Stored(r) == chat_sessions[req[r].session_id]

\* the request sent its whole window: the truncation loop removed nothing
Untruncated(r) == Len(req[r].history) = Len(req[r].history_data) + 2

\* the turn of request r (its user message, then its model reply) is at
\* positions i, i+1 of history h
TurnAt(h, i, r) ==
    /\ h[i] = ChatMessage("user", req[r].message)
    /\ h[i + 1] = ChatMessage("model", req[r].display_text)

\* C5 (as claimed): when two requests for the same session, neither carrying
\* persona_id or bot_version, have both completed successfully (and neither
\* truncated its window), the stored history holds both turns.
C5_NoLostUpdate ==
    ( /\ \A r \in Callers :
            /\ req[r].pc = "done"
            /\ req[r].persona_id = None
            /\ req[r].bot_version = None
            /\ Untruncated(r)
      /\ req["r1"].session_id = req["r2"].session_id )
    => \E i, j \in 1..(Len(Stored("r1").history) - 1) :
          /\ i # j
          /\ TurnAt(Stored("r1").history, i, "r1")
          /\ TurnAt(Stored("r1").history, j, "r2")

\* C6: session_name is written only by the turn that finds the stored
\* history empty, with the first 99 characters of that turn's user message,
\* and no other step (later turn, failed turn, truncating turn) changes it.
C6_NameSetOnce ==
    [][ \A session_id \in DOMAIN chat_sessions :
          LET old == chat_sessions[session_id]
              new == chat_sessions'[session_id]
          IN /\ old.history # <<>> => new.session_name = old.session_name
             /\ new.session_name # old.session_name =>
                   \E r \in Callers :
                      /\ req[r].pc = "commit"
                      /\ req[r].session_id = session_id
                      /\ old.history = <<>>
                      /\ new.session_name =
                            Prefix(req[r].message, SESSION_NAME_LENGTH)
             /\ (old.history = <<>> /\ new.history # <<>>) =>
                   /\ new.session_name # None
                   /\ new.session_name =
                         Prefix(new.history[1].content, SESSION_NAME_LENGTH) ]_vars

\* the name is the 99-character prefix of a longer first message, and a
\* later turn with another message has been stored since
C6_Witness ==
    \E session_id \in DOMAIN chat_sessions :
       LET row == chat_sessions[session_id]
       IN /\ row.session_name # None
          /\ Len(row.session_name) = SESSION_NAME_LENGTH
          /\ Len(row.history) >= 2
          /\ row.history[Len(row.history) - 1].content = <<"H", "i">>
          /\ turns >= 2

\* failures that happen before a model reply has been obtained
EarlyFaults ==
    {"session", "count_not_found", "count_error",
     "send_not_found", "send_error"}

\* C7: a request that met a failure before a model reply was obtained
\* (session missing, token counting failed, model version not found, model
\* call failed) ends as failed, and the stored history and session_name are
\* what they were when the request arrived.
C7_HistoryUntouched ==
    \A r \in Callers :
       (req[r].pc \in {"done", "failed"} /\ req[r].fault \in EarlyFaults) =>
          /\ req[r].pc = "failed"
          /\ req[r].status \in {400, 404, 503}
          /\ req[r].session_id \in DOMAIN chat_sessions =>
                /\ Stored(r).history = req[r].pre.row.history
                /\ Stored(r).session_name = req[r].pre.row.session_name

\* the model call failed on a session that already had a stored turn, for a
\* request that had also asked for a persona change
C7_Witness ==
    \E r \in Callers :
       /\ req[r].pc = "failed"
       /\ req[r].fault = "send_error"
       /\ req[r].persona_id # None
       /\ req[r].pre.found
       /\ Len(req[r].pre.row.history) >= 2
       /\ Stored(r).history = req[r].pre.row.history

\* the request is over, with a response or with an error
Finished(r) == req[r].pc \in {"done", "failed"}

\* C16 (as claimed): once the model reply was obtained, whatever the audio
\* resolution does, the request succeeds and the model message is appended
\* and persisted.
C16_AudioNeverBlocks ==
    \A r \in Callers :
       (Finished(r) /\ req[r].ai_response_raw # None) =>
          /\ req[r].pc = "done"
          /\ req[r].status = 200
          /\ Stored(r).history # <<>>
          /\ Stored(r).history[Len(Stored(r).history)] =
                ChatMessage("model", req[r].display_text)

\* failures raised inside the try block of lines 179-231
NotFoundFaults == {"count_not_found", "send_not_found"}

OtherFaults == {"count_error", "send_error", "audio"}

\* C17: a request that failed inside the provider section ends 400 exactly
\* when the provider raised not-found while counting tokens or generating
\* the reply, and 503 for every other failure raised there.
C17_StatusMapping ==
    \A r \in Callers :
       /\ req[r].fault \in NotFoundFaults
          => (req[r].pc = "failed" /\ req[r].status = 400)
       /\ req[r].fault \in OtherFaults
          => (req[r].pc = "failed" /\ req[r].status = 503)
       /\ req[r].status = 400 => req[r].fault \in NotFoundFaults
       /\ req[r].status = 503 => req[r].fault \in OtherFaults

\* the provider did not know the model version when the tokens were counted
C17_Witness ==
    \E r \in Callers :
       /\ req[r].pc = "failed"
       /\ req[r].fault = "count_not_found"
       /\ req[r].status = 400
       /\ req[r].final_bot_version \notin KnownModels

\* C18: when count_tokens_async fails, at whichever iteration of the loop,
\* the request fails, send_message_async is never invoked, no audio
\* resolution is attempted and the stored row is what it was.
C18_CountFailureStops ==
    \A r \in Callers :
       req[r].fault \in {"count_not_found", "count_error"} =>
          /\ req[r].pc = "failed"
          /\ req[r].status \in {400, 503}
          /\ req[r].sends = 0
          /\ req[r].audio_calls = 0
          /\ req[r].ai_response_raw = None
          /\ aPc[r] = "idle"
          /\ txWrite[r] = {}
          /\ Stored(r).history = req[r].pre.row.history
          /\ Stored(r).session_name = req[r].pre.row.session_name
          /\ req[r].pre.found => Stored(r) = req[r].pre.row

\* the count failed at a later iteration, after the window had been cut,
\* in a request that had also written a persona change
C18_Witness ==
    \E r \in Callers :
       /\ req[r].fault = "count_error"
       /\ Len(req[r].history) < Len(req[r].history_data) + 1
       /\ req[r].persona_id # None
       /\ req[r].persona_id # req[r].pre.row.persona_id
       /\ req[r].sends = 0
       /\ req[r].pre.found
       /\ Stored(r) = req[r].pre.row

\* a is a prefix of b
IsPrefix(a, b) == Len(a) <= Len(b) /\ SubSeq(b, 1, Len(a)) = a

\* C19 (as claimed): after a successful request the history stored before
\* it is a prefix of the history stored after it, also when the truncation
\* loop removed messages from the window.
C19_AppendOnly ==
    \A r \in Callers :
       req[r].pc = "done" =>
          IsPrefix(req[r].pre.row.history, Stored(r).history)

\* a stored history is empty, or alternates from a user message and ends
\* with a model message; it never holds more than two messages per request
StoredWellFormed ==
    \A session_id \in DOMAIN chat_sessions :
       LET h == chat_sessions[session_id].history
       IN /\ AlternatesFromUser(h)
          /\ Len(h) % 2 = 0
          /\ Len(h) <= 2 * turns

\* the stored history changes only when a request commits, and a request
\* whose window was not truncated adds exactly its user message and the
\* model reply, in that order, after what was stored
CommitAddsTurn ==
    \A session_id \in DOMAIN chat_sessions :
       LET old == chat_sessions[session_id].history
           new == chat_sessions'[session_id].history
       IN /\ new # old =>
               \E r \in Callers : /\ req[r].pc = "commit"
                                  /\ req[r].session_id = session_id
          /\ \A r \in Callers :
               ( /\ req[r].pc = "commit" /\ req'[r].pc = "done"
                 /\ req[r].session_id = session_id
                 /\ Untruncated(r) )
               => new = old \o <<ChatMessage("user", req[r].message),
                                ChatMessage("model", req[r].display_text)>>

\* C20: each successful turn without truncation adds exactly two messages,
\* the user message then the model reply, so that n such turns on a new
\* session leave 2n messages in the order sent; and every stored history is
\* empty or alternates from a user message and ends with a model message.
C20_TurnAccounting == []StoredWellFormed /\ [][CommitAddsTurn]_vars

\* two untruncated successful turns and nothing else: four messages stored
C20_Witness ==
    \E session_id \in DOMAIN chat_sessions :
       LET h == chat_sessions[session_id].history
       IN /\ turns = 2
          /\ Len(h) = 2 * turns
          /\ AlternatesFromUser(h)
          /\ h[Len(h)].role = "model"
          /\ \A r \in Callers : req[r].pc \in {"idle", "done"}

\* the markup a stored message carries (None when it has no such field)
StoredMarkup(msg) == IF "ssml" \in DOMAIN msg THEN msg.ssml ELSE None

\* C25 (as claimed): after a successful turn whose reply parsed into
\* display text and markup, the model message stored last carries the
\* display text as content together with the markup.
C25_EnrichedMessagePersisted ==
    \A r \in Callers :
       (req[r].pc = "done" /\ req[r].ssml_text # None) =>
          LET stored == Stored(r).history[Len(Stored(r).history)]
          IN /\ stored.role = "model"
             /\ stored.content = req[r].display_text
             /\ StoredMarkup(stored) = req[r].ssml_text

\* w is the end of h
IsSuffix(w, h) ==
    Len(w) <= Len(h) /\ w = SubSeq(h, Len(h) - Len(w) + 1, Len(h))

\* what request r hands to the model from its window
SendsNewMessage(r, call) ==
    /\ call.content = req[r].message
    /\ Append(call.history, ChatMessage("user", req[r].message))
          = req[r].history
    /\ IsSuffix(call.history, req[r].history_data)

\* C27: when the truncation loop has exited, the last message of the
\* window is the user message of the request; the content sent to the
\* model is request.message and the history given to start_chat is the
\* truncated window without that last message.
C27_NewMessageSurvives ==
    \A r \in Callers :
       /\ req[r].pc = "send"
          => /\ req[r].history # <<>>
             /\ SendsNewMessage(r, SendRequest(req[r].history))
       /\ req[r].pc = "audio"
          => SendsNewMessage(r, req[r].sent[1])

\* the reply was obtained for a window that had been cut down to the new
\* user message alone
C27_Witness ==
    \E r \in Callers :
       /\ req[r].pc = "audio"
       /\ Len(req[r].history_data) = 2
       /\ req[r].sent[1].history = <<>>
       /\ req[r].sent[1].content = req[r].message

\* sessions with at least one completed turn
NonEmptySessions ==
    { session_id \in DOMAIN chat_sessions :
        chat_sessions[session_id].history # <<>> }

\* C28: with requests served one after the other, a session's session_name
\* is non-null exactly when its stored history is non-empty, so that
\* get_user_sessions lists exactly the sessions with a completed turn.
C28_NamedIffNonEmpty ==
    /\ \A session_id \in DOMAIN chat_sessions :
          (chat_sessions[session_id].session_name # None)
          <=> (chat_sessions[session_id].history # <<>>)
    /\ get_user_sessions = NonEmptySessions

\* a session is listed after its first completed turn, which followed two
\* turns that failed and left it unlisted
C28_Witness ==
    /\ turns = 3
    /\ get_user_sessions # {}
    /\ \A session_id \in get_user_sessions :
          Len(chat_sessions[session_id].history) = 2
    /\ \A r \in Callers : req[r].pc = "idle"

\* request r asked for a change of the session's persona or model version
CarriesSettings(r) ==
    req[r].persona_id # None \/ req[r].bot_version # None

\* C30: when a request carrying persona_id or bot_version has failed (404,
\* 400 or 503), what it wrote has been rolled back: no write of it is
\* pending and the session row is what it was before the request.
C30_FailedTurnKeepsSettings ==
    \A r \in Callers :
       (req[r].pc = "failed" /\ CarriesSettings(r)) =>
          /\ req[r].status \in {400, 404, 503}
          /\ txWrite[r] = {}
          /\ req[r].pre.found => Stored(r) = req[r].pre.row
          /\ req[r].status = 404 => (req[r].fault = "session" /\ ~req[r].pre.found)

\* a request set a model version the provider does not know, on a session
\* that had a completed turn, and ended 400 with the old version in place
C30_Witness ==
    \E r \in Callers :
       /\ req[r].pc = "failed"
       /\ req[r].status = 400
       /\ req[r].bot_version \notin KnownModels
       /\ req[r].bot_version # None
       /\ req[r].final_bot_version = req[r].bot_version
       /\ req[r].pre.found
       /\ req[r].pre.row.history # <<>>
       /\ Stored(r).bot_version # req[r].bot_version
       /\ Stored(r) = req[r].pre.row

\* ------------------------------------------------------------------------
\* PersonaSpec: as SeqSpec, with requests that may carry a system
\* instruction, and with personas being deleted
\* ------------------------------------------------------------------------

PersonaNext ==
    \/ start_chat_session
    \/ delete_persona
    \/ BeginConfigured("r1")
    \/ HandlerStep("r1")

PersonaSpec == ChatInit /\ [][PersonaNext]_vars

\* the only 404 of a message request is the one for a missing session
NotFoundMeansNoSession ==
    \A r \in Callers : req[r].status = 404 => req[r].fault = "session"

\* the step that fixes the instruction and the voice of request r: the
\* session SELECT when the row names no persona, else the persona SELECT
InstructionChosen ==
    \A r \in Callers :
       (req[r].pc \in {"select", "persona"} /\ req'[r].pc = "count") =>
          LET persona_ref == CurrentRow(r).persona_id
              exists == persona_ref \in DOMAIN personas
              override == req[r].system_instruction
          IN /\ req'[r].final_system_instruction =
                   IF override # None THEN override
                   ELSE IF exists
                        THEN construct_system_prompt_from_persona(
                                 personas[persona_ref])
                        ELSE None
             /\ ~exists => req'[r].session_voice_id = DEFAULT_POLLY_VOICE_ID
             /\ req'[r].fault = "none"

\* C22: the instruction given to the model is the request's override when
\* one is supplied, else the prompt built from the session's persona when
\* that record exists, else none; a session whose persona was deleted gets
\* no instruction and the default voice, and its request does not end 404.
C22_InstructionPrecedence ==
    []NotFoundMeansNoSession /\ [][InstructionChosen]_vars

\* a request without override on a session whose persona had been deleted
\* completed, with no instruction and the default voice
C22_Witness ==
    \E r \in Callers :
       /\ req[r].pc = "done"
       /\ req[r].status = 200
       /\ req[r].rec_persona_id # None
       /\ req[r].rec_persona_id \notin DOMAIN personas
       /\ req[r].default_system_prompt = None
       /\ req[r].system_instruction = None
       /\ req[r].final_system_instruction = None
       /\ req[r].session_voice_id = DEFAULT_POLLY_VOICE_ID

\* ------------------------------------------------------------------------
\* ReadSpec: message requests served in the first slot and, between them,
\* history reads served in the second
\* ------------------------------------------------------------------------

ReadSlot == "r2"

\* a message request arrives when no read is being answered
BeginBetweenReads == req[ReadSlot].pc = "idle" /\ Begin("r1")

\* a history read arrives when no message request is being served
ReadHistory == req["r1"].pc = "idle" /\ get_chat_history(ReadSlot)

ReadNext ==
    \/ start_chat_session
    \/ BeginBetweenReads
    \/ HandlerStep("r1")
    \/ ReadHistory
    \/ Finish(ReadSlot)

ReadSpec == ChatInit /\ [][ReadNext]_vars

\* the key a pre-signed URL names
KeyOf(url) == url[2]

SessionA == <<"s", 1>>

SessionB == <<"s", 2>>

PairInit ==
    /\ FitIdle /\ KeyIdle /\ ParseIdle /\ AudioIdle
    /\ chat_sessions = [session_id \in {SessionA, SessionB} |->
                          NewSession(None, None)]
    /\ personas = (<<"p", 1>> :> [role_name |-> <<"T">>, voice_id |-> <<"b", "c">>])
    /\ txWrite = [r \in Callers |-> {}]
    /\ req = [r \in Callers |-> IdleReq]
    /\ turns = 0

\* the one request for session A
BeginA == turns < Cardinality(Callers) /\ BeginWith("r1", {SessionA}, {None})

\* the one request for session B
BeginB == turns < Cardinality(Callers) /\ BeginWith("r2", {SessionB}, {None})

PairNext ==
    \/ BeginA
    \/ BeginB
    \/ \E r \in Callers : HandlerStep(r)

PairSpec == PairInit /\ [][PairNext]_vars

\* a row changes only in the commit of a request for that very session
OnlyOwnSession ==
    \A session_id \in DOMAIN chat_sessions :
       chat_sessions'[session_id] # chat_sessions[session_id]
       => \E r \in Callers : /\ req[r].pc = "commit"
                              /\ req'[r].pc = "done"
                              /\ req[r].session_id = session_id

\* C29: a message request for session A, however it is interleaved with a
\* request for another session B, never changes the stored history,
\* session_name, persona_id or bot_version of B.
C29_SessionIndependence == [][OnlyOwnSession]_vars

\* both requests completed, each having changed the persona and version of
\* its own session, and each session holds the turn of its own request only
C29_Witness ==
    /\ req["r1"].pc = "done" /\ req["r2"].pc = "done"
    /\ req["r1"].message # req["r2"].message
    /\ req["r1"].persona_id # None /\ req["r2"].persona_id = None
    /\ chat_sessions[SessionA].persona_id # chat_sessions[SessionB].persona_id
    /\ chat_sessions[SessionA].history[1].content = req["r1"].message
    /\ chat_sessions[SessionB].history[1].content = req["r2"].message
    /\ Len(chat_sessions[SessionA].history) = 2
    /\ Len(chat_sessions[SessionB].history) = 2

\* ------------------------------------------------------------------------
\* RaceSpec: two callers, each invoking get_or_create_audio_url once, with
\* their S3 and Polly calls interleaved (two requests served by different
\* worker processes against the one bucket); nothing guards the
\* check-then-create of lines 62-88
\* ------------------------------------------------------------------------

RaceInit == AudioInit

\* caller c invokes get_or_create_audio_url; it is idle only before its call
RaceCall(c) ==
    /\ \E text \in AudioTexts, voice_id \in VoiceIds, text_type \in TextTypes :
          AudioCall(c, text, voice_id, text_type)
    /\ UNCHANGED <<fitVars, keyVars, parseVars, chatVars>>

RaceNext ==
    \E c \in Callers :
        \/ RaceCall(c)
        \/ AudioHead(c)
        \/ AudioSynthesize(c)
        \/ AudioPut(c)
        \/ AudioPresign(c)

RaceSpec == RaceInit /\ [][RaceNext]_vars

\* objects the bucket holds under a key
ObjectsAt(key) == { o \in s3 : o.key = key }

\* caller c has returned from a call in which head_object answered 404 and
\* no capability failed
MissedAndFinished(c) ==
    /\ aPc[c] = "returned"
    /\ aFile[c] # None
    /\ aStats[c].head = "404"
    /\ aStats[c].synth # "fail"
    /\ aStats[c].put # "fail"
    /\ aStats[c].presign = 1 => aRet[c] # None

\* C11: when two concurrent calls for the same trimmed text and voice have
\* both seen not-found and both finished without a failure, both have
\* synthesized and put, the bucket holds exactly one object under the one
\* fingerprint key, and both return the URL of that key.
C11_RaceConverges ==
    \A c1, c2 \in Callers :
        ( /\ c1 # c2
          /\ aFile[c1] = aFile[c2]
          /\ MissedAndFinished(c1)
          /\ MissedAndFinished(c2) )
        => /\ aStats[c1].synth = "ok" /\ aStats[c2].synth = "ok"
           /\ aStats[c1].put = "ok" /\ aStats[c2].put = "ok"
           /\ Cardinality(ObjectsAt(aFile[c1])) = 1
           /\ S3Keys = {aFile[c1]}
           /\ aRet[c1] = PresignedUrl(aFile[c1])
           /\ aRet[c2] = PresignedUrl(aFile[c1])

\* both callers saw not-found, synthesized, put and returned a URL, for
\* the same key although one sent plain text and the other markup
C11_Witness ==
    /\ aFile["r1"] = aFile["r2"]
    /\ MissedAndFinished("r1") /\ MissedAndFinished("r2")
    /\ aStats["r1"].put = "ok" /\ aStats["r2"].put = "ok"
    /\ aRet["r1"] # None /\ aRet["r2"] = aRet["r1"]
    /\ aArgs["r1"].text_type # aArgs["r2"].text_type

\* ------------------------------------------------------------------------
\* ParseSpec: the reply parser applied to every raw reply of up to
\* MaxReplyLen elements (a letter, a blank, either section marker)
\* ------------------------------------------------------------------------

RawReplies == StringsUpTo({"a", " ", DISPLAY_TEXT, SSML_TEXT}, MaxReplyLen)

ParseInit ==
    /\ FitIdle /\ KeyIdle /\ AudioIdle /\ ChatIdle
    /\ parseIn \in RawReplies
    /\ parseOut = <<>>

\* lines 198-221 run on ai_response_raw
Parse ==
    /\ parseOut = <<>>
    /\ parseOut' = <<ParseReply(parseIn)>>
    /\ UNCHANGED <<parseIn, fitVars, keyVars, audioVars, chatVars>>

ParseNext == Parse

ParseSpec == ParseInit /\ [][ParseNext]_vars

\* the parser has run
Parsed == Len(parseOut) = 1

\* the plain fallback for a raw reply
PlainFallback(raw) ==
    [display_text |-> raw, ssml_text |-> None,
     text_for_audio |-> raw, text_type_for_audio |-> "text"]

\* the raw reply up to its first [SSML_TEXT], and the rest after it
HeadOf(raw) ==
    SubSeq(raw, 1, (CHOOSE i \in 1..Len(raw) :
                      raw[i] = SSML_TEXT
                      /\ \A j \in 1..(i - 1) : raw[j] # SSML_TEXT) - 1)

TailOf(raw) == SubSeq(raw, Len(HeadOf(raw)) + 2, Len(raw))

\* C12: a raw reply without [SSML_TEXT] gives display text equal to the raw
\* reply unchanged (not trimmed, a [DISPLAY_TEXT] marker left in place), no
\* markup, and audio is requested for the display text with type 'text'.
C12_PlainFallback ==
    (Parsed /\ ~Contains(parseIn, SSML_TEXT))
    => /\ parseOut[1].display_text = parseIn
       /\ parseOut[1].ssml_text = None
       /\ parseOut[1].text_for_audio = parseOut[1].display_text
       /\ parseOut[1].text_type_for_audio = "text"

\* a reply with surrounding blanks and a display marker came out untouched
C12_Witness ==
    /\ Parsed
    /\ parseIn = <<" ", DISPLAY_TEXT, "a", " ">>
    /\ parseOut[1].display_text = parseIn
    /\ parseOut[1].ssml_text = None

\* C13 (as claimed): for a raw reply containing [SSML_TEXT] whose two
\* trimmed parts are non-empty, the split is at the first marker, the
\* display text is the head with a leading [DISPLAY_TEXT] prefix stripped
\* and then trimmed, nothing else of the head removed, and the markup is
\* the trimmed tail.
C13_ParseSuccess_AsClaimed ==
    (Parsed /\ Contains(parseIn, SSML_TEXT))
    => LET head == HeadOf(parseIn)
           unprefixed == IF head # <<>> /\ Head(head) = DISPLAY_TEXT
                         THEN Tail(head) ELSE head
       IN (strip(unprefixed) # <<>> /\ strip(TailOf(parseIn)) # <<>>)
          => /\ parseOut[1].display_text = strip(unprefixed)
             /\ parseOut[1].ssml_text = strip(TailOf(parseIn))

\* C13 (amended): for a raw reply containing [SSML_TEXT], split at the first
\* marker, where the head with EVERY [DISPLAY_TEXT] occurrence removed and
\* then trimmed, and the trimmed tail, are both non-empty: the display text
\* is that head, the markup is the trimmed tail, and audio is requested for
\* the markup with type 'ssml'.
C13_ParseSuccess ==
    (Parsed /\ Contains(parseIn, SSML_TEXT))
    => LET head == strip(Remove(HeadOf(parseIn), DISPLAY_TEXT))
           tail == strip(TailOf(parseIn))
       IN (head # <<>> /\ tail # <<>>)
          => /\ parseOut[1].display_text = head
             /\ parseOut[1].ssml_text = tail
             /\ parseOut[1].text_for_audio = tail
             /\ parseOut[1].text_type_for_audio = "ssml"

\* a reply with two [SSML_TEXT] markers and a display marker inside the
\* head was split at the first one and lost the display marker
C13_Witness ==
    /\ Parsed
    /\ parseIn = <<"a", DISPLAY_TEXT, SSML_TEXT, "a", SSML_TEXT>>
    /\ parseOut[1].display_text = <<"a">>
    /\ parseOut[1].ssml_text = <<"a", SSML_TEXT>>

\* C14: a raw reply containing [SSML_TEXT] whose head (display marker
\* removed, trimmed) or trimmed tail is empty gives exactly the plain
\* fallback: the whole raw reply as display text, no markup, type 'text'.
C14_MalformedFallback ==
    (Parsed /\ Contains(parseIn, SSML_TEXT))
    => ( ( \/ strip(Remove(HeadOf(parseIn), DISPLAY_TEXT)) = <<>>
           \/ strip(TailOf(parseIn)) = <<>> )
         => parseOut[1] = PlainFallback(parseIn) )

\* a reply with both markers and markup but no display text fell back
C14_Witness ==
    /\ Parsed
    /\ parseIn = <<DISPLAY_TEXT, " ", SSML_TEXT, "a">>
    /\ parseOut[1] = PlainFallback(parseIn)

====
